---- MODULE Spec2Model ----
(***************************************************************************)
(* Checkpoint Validation Engine of educational-mvc                         *)
(* (backend/utils/checkpoint_validator.py): the dispatcher                 *)
(* validate_checkpoint, the static analyser validate_static and the        *)
(* sandboxed executor validate_execution with its SIGALRM deadline.        *)
(*                                                                         *)
(* Python dicts are records whose DOMAIN is the set of keys present, lists *)
(* are sequences, f-strings are built with \o and ToString.  A submission  *)
(* is described by what the interpreter does with it: whether ast.parse    *)
(* accepts it, which patterns re.search finds in it, which node kinds its  *)
(* tree contains, what its module body does under exec and what its entry  *)
(* point does when called.                                                 *)
(***************************************************************************)
EXTENDS Integers, Sequences, FiniteSets, TLC

(* ------------------------------ bounds -------------------------------- *)
\* longest list of check rules in a static config
MaxChecks == 2
\* longest list of test cases in an execution config
MaxTests == 2

(* --------------------------- Python values ---------------------------- *)
\* str(None)
None == "None"

\* dict.get(k, default)
Get(d, k, default) == IF k \in DOMAIN d THEN d[k] ELSE default

\* an optional list-valued entry of a result dict: the key is absent, or
\* bound to None, or bound to a list
Absent == [kind |-> "absent", items |-> << >>]
NoneList == [kind |-> "None", items |-> << >>]
List(s) == [kind |-> "list", items |-> s]

\* the list is handed over as it is, empty or not
ListOrNone_Mut(s) == List(s)

\* `xs if xs else None`
ListOrNone(s) == IF Len(s) > 0 THEN List(s) ELSE NoneList

\* a result dict
Result(p, m, e, h) == [passed |-> p, message |-> m, errors |-> e, hints |-> h]

\* what a call left before any call was made
NoResult == Result(FALSE, "", Absent, Absent)

RECURSIVE SeqsUpTo(_, _)
\* all lists over S of length at most n
SeqsUpTo(S, n) ==
    IF n = 0 THEN {<< >>}
    ELSE LET shorter == SeqsUpTo(S, n - 1)
         IN  shorter \cup {Append(s, x) : s \in {t \in shorter : Len(t) = n - 1}, x \in S}

(* ----------------------------- constants ------------------------------ *)
EXECUTION_TIMEOUT == 5

\* the names bound in CheckpointValidator.SAFE_BUILTINS when the class is created
SafeBuiltinsInit ==
    {"str", "int", "float", "bool", "list", "dict", "tuple", "set", "len",
     "range", "enumerate", "zip", "map", "filter", "sorted", "sum", "min",
     "max", "abs", "round", "print", "ValueError", "TypeError", "KeyError",
     "IndexError"}

(* ---------------------------- submissions ----------------------------- *)
\* the patterns and node kinds the check rules below refer to
PatRaise == "raise ValueError"
PatBad == "("

Code(ok, ms, ns, b, f) ==
    [syntax_ok |-> ok, lineno |-> 1, msg |-> "invalid syntax",
     matches |-> ms, nodes |-> ns, body |-> b, fn |-> f]

\* what the module body does under exec
Bodies == {"pass", "raise", "import", "del_len", "loop", "loop_swallow"}

\* what the name `double` is bound to after the module body ran, as the
\* behaviour of a call double(x=..): absent (not bound), noncallable (bound
\* to an int), or a function that returns 2*x, returns x, raises
\* ValueError('bad'), imports a module and returns 2*x, returns
\* len([1, 2])*x, deletes __builtins__['len'] and returns 2*x, loops
\* forever, loops forever inside a bare try/except, or (plant) walks from
\* ().__class__.__base__.__subclasses__() to the interpreter's builtins,
\* stores their __import__ in __builtins__ and returns 2*x
Fns == {"absent", "noncallable", "double", "ident", "raise", "import",
        "uselen", "del_len", "loop", "loop_swallow", "plant"}

Codes ==
    {Code(FALSE, {}, {}, "pass", "double")}
    \cup {Code(TRUE, ms, ns, "pass", "double") : ms \in SUBSET {PatRaise}, ns \in SUBSET {"Raise"}}
    \cup {Code(TRUE, {}, {}, b, f) : b \in Bodies, f \in Fns}

(* ------------------------------ configs ------------------------------- *)
CheckRules ==
    {[type |-> "regex", pattern |-> PatRaise, message |-> "must raise ValueError", required |-> r] : r \in BOOLEAN}
    \cup {[type |-> "ast_contains", node_type |-> n, message |-> "must contain " \o n, required |-> r] :
            n \in {"Raise", "NoSuchNode"}, r \in BOOLEAN}
    \cup {[type |-> "regex", pattern |-> PatBad, message |-> "bad pattern", required |-> TRUE],
          [type |-> "ast_contains", message |-> "no node_type", required |-> TRUE],
          [type |-> "ast_contains", message |-> "no node_type, optional", required |-> FALSE],
          [pattern |-> PatRaise, required |-> FALSE],
          [type |-> "regex", pattern |-> PatRaise, message |-> "no required flag"],
          [type |-> "regex", message |-> "no pattern", required |-> TRUE],
          [type |-> "bogus", message |-> "unknown rule type", required |-> TRUE]}

TestCases ==
    {[input |-> [x |-> 2], expected |-> e] : e \in {2, 4}}
    \cup {[input |-> [x |-> 2], expected |-> e, description |-> "d"] : e \in {2, 4}}

\* a config that is not a mapping (a JSON list, say): it has no .get
NotMapping == [not_a_mapping |-> TRUE]
IsMapping(c) == "not_a_mapping" \notin DOMAIN c

StaticConfigs ==
    {[type |-> "static", checks |-> cs] : cs \in SeqsUpTo(CheckRules, MaxChecks)}
    \cup {[type |-> "static"]}
    \cup {[checks |-> << >>],
          [checks |-> <<[type |-> "regex", pattern |-> PatRaise,
                         message |-> "must raise ValueError", required |-> TRUE]>>,
           test_cases |-> <<[input |-> [x |-> 2], expected |-> 4]>>,
           function_name |-> "double"]}

ExecConfigs ==
    {[type |-> "execution", test_cases |-> ts, function_name |-> "double"] :
        ts \in SeqsUpTo(TestCases, MaxTests)}
    \cup {[type |-> "execution", test_cases |-> ts, function_name |-> "double", timeout |-> t] :
        ts \in SeqsUpTo(TestCases, MaxTests), t \in {0, 1, 60}}

\* configs of a type the dispatcher does not know, bare or with the entries
\* of the other types
UnknownConfigs ==
    {[type |-> "bogus"],
     [type |-> "Static",
      checks |-> <<[type |-> "regex", pattern |-> PatBad, message |-> "bad pattern", required |-> TRUE]>>,
      test_cases |-> <<[input |-> [x |-> 2], expected |-> 4]>>,
      function_name |-> "double"]}

Configs ==
    StaticConfigs \cup ExecConfigs \cup UnknownConfigs \cup {NotMapping}

(* ------------------------- validate_static ---------------------------- *)
\* re.search(pattern, submitted_code, re.MULTILINE): "error" when the
\* pattern does not compile (re.error), and the empty pattern is found in
\* every string
RegexSearch(pattern, c) ==
    IF pattern = PatBad THEN "error"
    ELSE IF pattern = "" \/ pattern \in c.matches THEN "found"
    ELSE "notfound"

\* a walk that takes a name no node class has for found
ast_contains_node_Mut(c, node_type) == node_type \in c.nodes \/ node_type \notin {"Raise"}

\* _ast_contains_node(tree, node_type): some node of the walk has that type name
ast_contains_node(c, node_type) == node_type \in c.nodes

\* a required flag that is never read: every rule is required
CheckRequired_Mut(check) == TRUE

\* required = check.get('required', True)
CheckRequired(check) == Get(check, "required", TRUE)

\* every failed rule is recorded as an error, whatever its required flag
RecordFailure_Mut(acc, required, message) == [acc EXCEPT !.errors = Append(@, message)]

\* the branch `if required: errors.append(message) else: hints.append(message)`
RecordFailure(acc, required, message) ==
    IF required
    THEN [acc EXCEPT !.errors = Append(@, message)]
    ELSE [acc EXCEPT !.hints = Append(@, message)]

\* a loop body that counts a rule of a type it does not know as failed
RunCheck_Mut(c, check, acc) ==
    LET check_type == Get(check, "type", "regex")
        required == CheckRequired(check)
        message == Get(check, "message", "Check failed")
        counted == [acc EXCEPT !.evaluated = @ + 1]
    IN  IF check_type = "regex"
        THEN LET found == RegexSearch(Get(check, "pattern", ""), c)
             IN  IF found = "error" THEN [counted EXCEPT !.raised = TRUE]
                 ELSE IF found = "notfound" THEN RecordFailure(counted, required, message)
                 ELSE counted
        ELSE IF check_type = "ast_contains"
        THEN IF ~ast_contains_node(c, Get(check, "node_type", None))
             THEN RecordFailure(counted, required, message)
             ELSE counted
        ELSE RecordFailure(counted, required, message)

\* one iteration of `for check in checks`: acc carries errors, hints, the
\* number of rules evaluated so far and whether re.search raised
RunCheck(c, check, acc) ==
    LET check_type == Get(check, "type", "regex")
        required == CheckRequired(check)
        message == Get(check, "message", "Check failed")
        counted == [acc EXCEPT !.evaluated = @ + 1]
    IN  IF check_type = "regex"
        THEN LET found == RegexSearch(Get(check, "pattern", ""), c)
             IN  IF found = "error" THEN [counted EXCEPT !.raised = TRUE]
                 ELSE IF found = "notfound" THEN RecordFailure(counted, required, message)
                 ELSE counted
        ELSE IF check_type = "ast_contains"
        THEN IF ~ast_contains_node(c, Get(check, "node_type", None))
             THEN RecordFailure(counted, required, message)
             ELSE counted
        ELSE counted

RECURSIVE StaticLoop_Mut(_, _, _, _)
\* a loop that stops at the first error
StaticLoop_Mut(c, checks, k, acc) ==
    IF k > Len(checks) \/ acc.raised \/ Len(acc.errors) > 0 THEN acc
    ELSE StaticLoop_Mut(c, checks, k + 1, RunCheck(c, checks[k], acc))

RECURSIVE StaticLoop(_, _, _, _)
\* `for check in checks`, from the k-th rule on; an exception ends the loop
StaticLoop(c, checks, k, acc) ==
    IF k > Len(checks) \/ acc.raised THEN acc
    ELSE StaticLoop(c, checks, k + 1, RunCheck(c, checks[k], acc))

\* a verdict that ignores the collected errors
StaticPassed_Mut(errors) == TRUE

\* passed = len(errors) == 0
StaticPassed(errors) == Len(errors) = 0

\* a syntax-error dict whose errors entry gives the line but not the reason
StaticSyntaxResult_Mut(c) ==
    Result(FALSE, "Syntax error in your code",
           List(<<"Line " \o ToString(c.lineno)>>),
           List(<<"Check for missing colons, parentheses, or quotes">>))

\* the dict returned on SyntaxError by validate_static
StaticSyntaxResult(c) ==
    Result(FALSE, "Syntax error in your code",
           List(<<"Line " \o ToString(c.lineno) \o ": " \o c.msg>>),
           List(<<"Check for missing colons, parentheses, or quotes">>))

\* a validator that fails a submission when there is no rule to check it
ValidateStatic_Mut(c, checks) ==
    IF ~c.syntax_ok
    THEN [outcome |-> "returned", exc |-> "", result |-> StaticSyntaxResult(c), evaluated |-> 0]
    ELSE LET acc == StaticLoop(c, checks, 1,
                        [errors |-> << >>, hints |-> << >>, evaluated |-> 0, raised |-> FALSE])
             passed == StaticPassed(acc.errors) /\ Len(checks) > 0
         IN  IF acc.raised
             THEN [outcome |-> "raised", exc |-> "re.error", result |-> NoResult,
                   evaluated |-> acc.evaluated]
             ELSE [outcome |-> "returned", exc |-> "",
                   result |-> Result(passed,
                                     IF passed THEN "All checks passed!" ELSE "Some checks failed",
                                     ListOrNone(acc.errors), ListOrNone(acc.hints)),
                   evaluated |-> acc.evaluated]

\* validate_static(submitted_code, checks): the call's outcome ("returned"
\* with a result, or "raised" with the exception's type) and the number of
\* rules it evaluated
ValidateStatic(c, checks) ==
    IF ~c.syntax_ok
    THEN [outcome |-> "returned", exc |-> "", result |-> StaticSyntaxResult(c), evaluated |-> 0]
    ELSE LET acc == StaticLoop(c, checks, 1,
                        [errors |-> << >>, hints |-> << >>, evaluated |-> 0, raised |-> FALSE])
             passed == StaticPassed(acc.errors)
         IN  IF acc.raised
             THEN [outcome |-> "raised", exc |-> "re.error", result |-> NoResult,
                   evaluated |-> acc.evaluated]
             ELSE [outcome |-> "returned", exc |-> "",
                   result |-> Result(passed,
                                     IF passed THEN "All checks passed!" ELSE "Some checks failed",
                                     ListOrNone(acc.errors), ListOrNone(acc.hints)),
                   evaluated |-> acc.evaluated]

(* ------------------------ validate_execution -------------------------- *)
VARIABLES
    pc,             \* "idle" between calls, "done" when a call has ended, else a place in validate_execution
    config,         \* checkpoint_config of the current (or last) call
    code,           \* submitted_code of the current (or last) call
    safe_globals,   \* the names bound in the namespace handed to exec
    failed_tests,   \* the list failed_tests
    i,              \* the loop index of `for i, test_case in enumerate(test_cases)`
    e,              \* str(e) of the exception an except clause is handling
    pending,        \* what the try statement delivers once its finally clause has run
    alarm,          \* seconds of the process's pending SIGALRM alarm, 0 when none is pending
    handler,        \* the process's SIGALRM handler
    SAFE_BUILTINS,  \* the names bound in the class attribute CheckpointValidator.SAFE_BUILTINS
    outcome,        \* how the last call ended: "none", "returned" or "raised"
    result,         \* the dict the last call returned
    exc,            \* the type of the exception the last call raised
    \* history of the current call, kept for the properties
    fired,          \* the alarm went off during the call
    armed,          \* the argument of the call's signal.alarm(timeout), -1 before it
    executed,       \* exec of the module body was started
    trace,          \* one entry per invocation of the entry point: its index and how it ended
    evaluated,      \* number of check rules validate_static evaluated
    prev,           \* outcome of the call before, when it had the same arguments
    \* a second thread of the process
    other,          \* the call of validate_execution in progress in that thread, if any
    \* the lesson controller
    session,        \* the Flask session of the learner
    request,        \* the POST /lessons/<id>/checkpoint request whose validation is in progress, if any
    submissions     \* per checkpoint id, the number of submissions that reached validation

vars == <<pc, config, code, safe_globals, failed_tests, i, e, pending, alarm, handler,
          SAFE_BUILTINS, outcome, result, exc, fired, armed, executed, trace, evaluated, prev,
          other, session, request, submissions>>

\* the state the lesson controller keeps
web == <<session, request, submissions>>

locals == <<safe_globals, failed_tests, i, e, pending>>
history == <<fired, armed, executed, trace, evaluated, prev>>
returned == <<outcome, result, exc>>

\* the arguments validate_checkpoint passes to validate_execution
test_cases == Get(config, "test_cases", << >>)
function_name == Get(config, "function_name", None)
timeout == Get(config, "timeout", EXECUTION_TIMEOUT)

NoPending == [kind |-> "none", result |-> NoResult, exc |-> ""]
Return(r) == [kind |-> "return", result |-> r, exc |-> ""]
Raise(x) == [kind |-> "raise", result |-> NoResult, exc |-> x]

\* str(e) of the TimeoutError timeout_handler raises
TimeoutMsg == "Code execution timed out after " \o ToString(timeout) \o " seconds"

\* str(e) of the TypeError of 'error: ' + None
ConcatNoneMsg == "can only concatenate str (not \"NoneType\") to str"

\* the dict returned on SyntaxError by validate_execution
ExecSyntaxResult(c) ==
    Result(FALSE, "Syntax error in your code",
           List(<<"Line " \o ToString(c.lineno) \o ": " \o c.msg>>), Absent)

\* the dict returned when function_name is not a key of safe_globals
MissingResult(name) ==
    Result(FALSE, "Function \"" \o name \o "\" not found in your code",
           List(<<"Expected to find function: " \o name>>), Absent)

\* the dict returned by `except TimeoutError as e`
TimeoutResult(msg) ==
    Result(FALSE, "Code execution timeout", List(<<msg>>),
           List(<<"Your code might have an infinite loop">>))

\* the dict returned by `except Exception as e`
ErrorResult(msg) == Result(FALSE, "Error executing your code", List(<<msg>>), Absent)

\* student_function(**test_input) for a function of the given behaviour,
\* with the builtins it sees: it returns a value, raises, or does not end
CallFn(fn, x, builtins) ==
    CASE fn = "double" -> [kind |-> "return", value |-> 2 * x, msg |-> ""]
      [] fn = "ident" -> [kind |-> "return", value |-> x, msg |-> ""]
      [] fn = "uselen" ->
            IF "len" \in builtins
            THEN [kind |-> "return", value |-> 2 * x, msg |-> ""]
            ELSE [kind |-> "raise", value |-> 0, msg |-> "name 'len' is not defined"]
      [] fn = "del_len" ->
            IF "len" \in builtins
            THEN [kind |-> "return", value |-> 2 * x, msg |-> ""]
            ELSE [kind |-> "raise", value |-> 0, msg |-> "'len'"]
      [] fn = "raise" -> [kind |-> "raise", value |-> 0, msg |-> "bad"]
      [] fn = "import" ->
            IF "__import__" \in builtins
            THEN [kind |-> "return", value |-> 2 * x, msg |-> ""]
            ELSE [kind |-> "raise", value |-> 0, msg |-> "__import__ not found"]
      [] fn = "plant" -> [kind |-> "return", value |-> 2 * x, msg |-> ""]
      [] fn = "noncallable" -> [kind |-> "raise", value |-> 0, msg |-> "'int' object is not callable"]
      [] OTHER -> [kind |-> "loop", value |-> 0, msg |-> ""]

\* the builtins mapping after code of the given behaviour ran
BuiltinsAfter(behaviour, builtins) ==
    CASE behaviour = "del_len" -> builtins \ {"len"}
      [] behaviour = "plant" -> builtins \cup {"__import__"}
      [] OTHER -> builtins

\* description = test_case.get('description', f'Test {i+1}')
Description(test_case, idx) == Get(test_case, "description", "Test " \o ToString(idx + 1))

\* t.get('actual', 'error: ' + t.get('error')): the default is evaluated
\* before the lookup, and 'error: ' + None raises TypeError
FormatActual(t) ==
    IF "error" \notin DOMAIN t THEN [raised |-> TRUE, text |-> ""]
    ELSE [raised |-> FALSE,
          text |-> IF "actual" \in DOMAIN t THEN ToString(t.actual) ELSE "error: " \o t.error]

\* f"{t['description']}: Expected {t.get('expected')}, got {...}"
FormatFailure(t) ==
    t.description \o ": Expected "
        \o (IF "expected" \in DOMAIN t THEN ToString(t.expected) ELSE None)
        \o ", got " \o FormatActual(t).text

\* the list comprehension over failed_tests
FormatErrors(failed) ==
    [raised |-> \E k \in 1..Len(failed) : FormatActual(failed[k]).raised,
     items |-> [k \in 1..Len(failed) |-> FormatFailure(failed[k])]]

\* a finally clause that leaves the alarm as it is
FinallyAlarm_Mut(a) == a

\* the alarm after the finally clause's signal.alarm(0)
FinallyAlarm(a) == 0

NoPrev == [has |-> FALSE, outcome |-> "none", result |-> NoResult]

\* the second thread is not inside validate_execution
OtherIdle == [pc |-> "idle", e |-> "", result |-> NoResult]

\* {}
EmptyDict == [k \in {} |-> None]

\* the checkpoint ids a submission can carry
Checkpoints == {"a", "b"}

\* no checkpoint request is being validated
NoRequest == [active |-> FALSE, lesson_id |-> 0, checkpoint_id |-> ""]

Init ==
    /\ pc = "idle"
    /\ config = [type |-> "static"]
    /\ code = Code(TRUE, {}, {}, "pass", "double")
    /\ safe_globals = {}
    /\ failed_tests = << >>
    /\ i = 0
    /\ e = ""
    /\ pending = NoPending
    /\ alarm = 0
    /\ handler = "SIG_DFL"
    /\ SAFE_BUILTINS = SafeBuiltinsInit
    /\ outcome = "none"
    /\ result = NoResult
    /\ exc = ""
    /\ fired = FALSE
    /\ armed = -1
    /\ executed = FALSE
    /\ trace = << >>
    /\ evaluated = 0
    /\ prev = NoPrev
    /\ other = OtherIdle
    /\ session = EmptyDict
    /\ request = NoRequest
    /\ submissions = [cp \in Checkpoints |-> 0]

\* the call ends: it returns r or raises x
EndCall(kind, r, x) ==
    /\ pc' = "done"
    /\ outcome' = kind
    /\ result' = r
    /\ exc' = x

\* a dispatcher that takes every type but 'execution' for 'static'
Dispatch_Mut(validator_type) ==
    IF validator_type = "execution" THEN "execution" ELSE "static"

\* the branch validate_checkpoint takes for a validator type
Dispatch(validator_type) ==
    IF validator_type = "static" THEN "static"
    ELSE IF validator_type = "execution" THEN "execution"
    ELSE "unknown"

\* the dict returned for a validator type that is not supported
UnknownTypeResult(validator_type) ==
    Result(FALSE, "Unknown validator type: " \o validator_type,
           List(<<"Validator type \"" \o validator_type \o "\" not supported">>), Absent)

\* validate_checkpoint(lesson_id, checkpoint_id, submitted_code, checkpoint_config),
\* up to the return of validate_static or to the first statement of the
\* try block of validate_execution
Call(cfg, c) ==
    /\ UNCHANGED <<other, web>>
    /\ pc \in {"idle", "done"}
    /\ config' = cfg
    /\ code' = c
    /\ prev' = IF pc = "done"
               THEN [has |-> TRUE, outcome |-> outcome, result |-> result]
               ELSE NoPrev
    /\ fired' = FALSE
    /\ armed' = -1
    /\ executed' = FALSE
    /\ trace' = << >>
    /\ UNCHANGED <<failed_tests, i, e, pending, alarm, handler, SAFE_BUILTINS>>
    /\ IF ~IsMapping(cfg)
       THEN /\ EndCall("raised", NoResult, "AttributeError")
            /\ evaluated' = 0
            /\ UNCHANGED safe_globals
       ELSE LET validator_type == Get(cfg, "type", "static")
            IN  IF Dispatch(validator_type) = "static"
                THEN LET r == ValidateStatic(c, Get(cfg, "checks", << >>))
                     IN  /\ EndCall(r.outcome, r.result, r.exc)
                         /\ evaluated' = r.evaluated
                         /\ UNCHANGED safe_globals
                ELSE IF Dispatch(validator_type) = "execution"
                THEN /\ evaluated' = 0
                     /\ IF ~c.syntax_ok
                        THEN /\ EndCall("returned", ExecSyntaxResult(c), "")
                             /\ UNCHANGED safe_globals
                        ELSE /\ pc' = "install"
                             /\ safe_globals' = {"__builtins__", "__name__"}
                             /\ UNCHANGED returned
                ELSE /\ EndCall("returned", UnknownTypeResult(validator_type), "")
                     /\ evaluated' = 0
                     /\ UNCHANGED safe_globals

\* signal.signal(signal.SIGALRM, timeout_handler)
Install ==
    /\ UNCHANGED <<other, web>>
    /\ pc = "install"
    /\ handler' = "timeout_handler"
    /\ pc' = "arm"
    /\ UNCHANGED <<config, code, locals, alarm, SAFE_BUILTINS, returned, history>>

\* an alarm call that reads 0 as "use the default"
Arm_Mut ==
    /\ UNCHANGED <<other, web>>
    /\ pc = "arm"
    /\ alarm' = (IF timeout = 0 THEN EXECUTION_TIMEOUT ELSE timeout)
    /\ armed' = timeout
    /\ pc' = "exec"
    /\ UNCHANGED <<config, code, locals, handler, SAFE_BUILTINS, returned,
                   fired, executed, trace, evaluated, prev>>

\* signal.alarm(timeout): alarm(0) schedules nothing
Arm ==
    /\ UNCHANGED <<other, web>>
    /\ pc = "arm"
    /\ alarm' = timeout
    /\ armed' = timeout
    /\ pc' = "exec"
    /\ UNCHANGED <<config, code, locals, handler, SAFE_BUILTINS, returned,
                   fired, executed, trace, evaluated, prev>>

\* exec(compile(tree, '<student_code>', 'exec'), safe_globals) is entered
ExecStart ==
    /\ UNCHANGED <<other, web>>
    /\ pc = "exec"
    /\ executed' = TRUE
    /\ pc' = "body"
    /\ UNCHANGED <<config, code, locals, alarm, handler, SAFE_BUILTINS, returned,
                   fired, armed, trace, evaluated, prev>>

\* the module body runs to its end or to an exception; a body that loops
\* takes no step
Body ==
    /\ UNCHANGED <<other, web>>
    /\ pc = "body"
    /\ code.body \in {"pass", "raise", "import", "del_len"}
    /\ IF \/ code.body = "pass"
          \/ code.body = "del_len" /\ "len" \in SAFE_BUILTINS
          \/ code.body = "import" /\ "__import__" \in SAFE_BUILTINS
       THEN /\ safe_globals' = safe_globals \cup (IF code.fn = "absent" THEN {} ELSE {"double"})
            /\ SAFE_BUILTINS' = BuiltinsAfter(code.body, SAFE_BUILTINS)
            /\ pc' = "lookup"
            /\ UNCHANGED e
       ELSE /\ e' = CASE code.body = "raise" -> "bad"
                      [] code.body = "import" -> "__import__ not found"
                      [] OTHER -> "'len'"
            /\ pc' = "except_exc"
            /\ UNCHANGED <<safe_globals, SAFE_BUILTINS>>
    /\ UNCHANGED <<config, code, failed_tests, i, pending, alarm, handler, returned, history>>

\* `if function_name not in safe_globals: return {...}`, else
\* student_function = safe_globals[function_name]; failed_tests = []
Lookup ==
    /\ UNCHANGED <<other, web>>
    /\ pc = "lookup"
    /\ IF function_name \notin safe_globals
       THEN /\ pending' = Return(MissingResult(function_name))
            /\ pc' = "finally"
            /\ UNCHANGED <<failed_tests, i>>
       ELSE /\ failed_tests' = << >>
            /\ i' = 0
            /\ pc' = "loop"
            /\ UNCHANGED pending
    /\ UNCHANGED <<config, code, safe_globals, e, alarm, handler, SAFE_BUILTINS, returned, history>>

\* the head of `for i, test_case in enumerate(test_cases)`: the next case
\* is entered, or the loop is over
Loop ==
    /\ UNCHANGED <<other, web>>
    /\ pc = "loop"
    /\ IF i < Len(test_cases)
       THEN /\ trace' = Append(trace, [idx |-> i, how |-> "running", value |-> 0])
            /\ pc' = "call"
       ELSE /\ pc' = "cancel"
            /\ UNCHANGED trace
    /\ UNCHANGED <<config, code, locals, alarm, handler, SAFE_BUILTINS, returned,
                   fired, armed, executed, evaluated, prev>>

\* how the invocation in progress ended, and with which value
Ended(how, v) == [trace EXCEPT ![Len(trace)] = [idx |-> @.idx, how |-> how, value |-> v]]

\* the body of the inner try: the entry point is called with the case's
\* input and its value compared with expected; a call that loops takes no step
CallCase ==
    /\ UNCHANGED <<other, web>>
    /\ pc = "call"
    /\ LET test_case == test_cases[i + 1]
           expected == test_case.expected
           description == Description(test_case, i)
           r == CallFn(code.fn, test_case.input.x, SAFE_BUILTINS)
       IN  /\ r.kind # "loop"
           /\ SAFE_BUILTINS' = BuiltinsAfter(code.fn, SAFE_BUILTINS)
           /\ IF r.kind = "return"
              THEN /\ failed_tests' =
                        IF r.value # expected
                        THEN Append(failed_tests, [description |-> description,
                                                   expected |-> expected, actual |-> r.value])
                        ELSE failed_tests
                   /\ trace' = Ended(IF r.value # expected THEN "mismatch" ELSE "match", r.value)
                   /\ i' = i + 1
                   /\ pc' = "loop"
                   /\ UNCHANGED e
              ELSE /\ e' = r.msg
                   /\ trace' = Ended("raise", 0)
                   /\ pc' = "except_case"
                   /\ UNCHANGED <<failed_tests, i>>
    /\ UNCHANGED <<config, code, safe_globals, pending, alarm, handler, returned,
                   fired, armed, executed, evaluated, prev>>

\* an except clause that gives up the remaining cases
ExceptCase_Mut ==
    /\ UNCHANGED <<other, web>>
    /\ pc = "except_case"
    /\ failed_tests' = Append(failed_tests,
                              [description |-> Description(test_cases[i + 1], i), error |-> e])
    /\ i' = Len(test_cases)
    /\ pc' = "loop"
    /\ UNCHANGED <<config, code, safe_globals, e, pending, alarm, handler, SAFE_BUILTINS,
                   returned, history>>

\* the inner `except Exception as e`
ExceptCase ==
    /\ UNCHANGED <<other, web>>
    /\ pc = "except_case"
    /\ failed_tests' = Append(failed_tests,
                              [description |-> Description(test_cases[i + 1], i), error |-> e])
    /\ i' = i + 1
    /\ pc' = "loop"
    /\ UNCHANGED <<config, code, safe_globals, e, pending, alarm, handler, SAFE_BUILTINS,
                   returned, history>>

\* signal.alarm(0) after the loop
Cancel ==
    /\ UNCHANGED <<other, web>>
    /\ pc = "cancel"
    /\ alarm' = 0
    /\ pc' = "format"
    /\ UNCHANGED <<config, code, locals, handler, SAFE_BUILTINS, returned, history>>

\* a result that overlooks a single failed case
Format_Mut ==
    /\ UNCHANGED <<other, web>>
    /\ pc = "format"
    /\ IF Len(failed_tests) > 1
       THEN LET f == FormatErrors(failed_tests)
            IN  IF f.raised
                THEN /\ e' = ConcatNoneMsg
                     /\ pc' = "except_exc"
                     /\ UNCHANGED pending
                ELSE /\ pending' = Return(Result(FALSE,
                                                 ToString(Len(failed_tests)) \o " test(s) failed",
                                                 List(f.items), Absent))
                     /\ pc' = "finally"
                     /\ UNCHANGED e
       ELSE /\ pending' = Return(Result(TRUE,
                                        "All " \o ToString(Len(test_cases)) \o " test(s) passed!",
                                        Absent, Absent))
            /\ pc' = "finally"
            /\ UNCHANGED e
    /\ UNCHANGED <<config, code, safe_globals, failed_tests, i, alarm, handler, SAFE_BUILTINS,
                   returned, history>>

\* `if failed_tests: return {...} else: return {...}`
Format ==
    /\ UNCHANGED <<other, web>>
    /\ pc = "format"
    /\ IF Len(failed_tests) > 0
       THEN LET f == FormatErrors(failed_tests)
            IN  IF f.raised
                THEN /\ e' = ConcatNoneMsg
                     /\ pc' = "except_exc"
                     /\ UNCHANGED pending
                ELSE /\ pending' = Return(Result(FALSE,
                                                 ToString(Len(failed_tests)) \o " test(s) failed",
                                                 List(f.items), Absent))
                     /\ pc' = "finally"
                     /\ UNCHANGED e
       ELSE /\ pending' = Return(Result(TRUE,
                                        "All " \o ToString(Len(test_cases)) \o " test(s) passed!",
                                        Absent, Absent))
            /\ pc' = "finally"
            /\ UNCHANGED e
    /\ UNCHANGED <<config, code, safe_globals, failed_tests, i, alarm, handler, SAFE_BUILTINS,
                   returned, history>>

\* the timeout handled the way the generic clause handles an exception
ExceptTimeout_Mut ==
    /\ UNCHANGED <<other, web>>
    /\ pc = "except_timeout"
    /\ alarm' = 0
    /\ pending' = Return(ErrorResult(e))
    /\ pc' = "finally"
    /\ UNCHANGED <<config, code, safe_globals, failed_tests, i, e, handler, SAFE_BUILTINS,
                   returned, history>>

\* the outer `except TimeoutError as e`
ExceptTimeout ==
    /\ UNCHANGED <<other, web>>
    /\ pc = "except_timeout"
    /\ alarm' = 0
    /\ pending' = Return(TimeoutResult(e))
    /\ pc' = "finally"
    /\ UNCHANGED <<config, code, safe_globals, failed_tests, i, e, handler, SAFE_BUILTINS,
                   returned, history>>

\* the outer `except Exception as e`
ExceptExc ==
    /\ UNCHANGED <<other, web>>
    /\ pc = "except_exc"
    /\ alarm' = 0
    /\ pending' = Return(ErrorResult(e))
    /\ pc' = "finally"
    /\ UNCHANGED <<config, code, safe_globals, failed_tests, i, e, handler, SAFE_BUILTINS,
                   returned, history>>

\* the finally clause, then the call returns or raises what is pending and
\* its locals are gone
Finally ==
    /\ UNCHANGED <<other, web>>
    /\ pc = "finally"
    /\ alarm' = FinallyAlarm(alarm)
    /\ EndCall(IF pending.kind = "return" THEN "returned" ELSE "raised",
               pending.result, pending.exc)
    /\ safe_globals' = {}
    /\ failed_tests' = << >>
    /\ i' = 0
    /\ e' = ""
    /\ pending' = NoPending
    /\ UNCHANGED <<config, code, handler, SAFE_BUILTINS, history>>

\* the alarm goes off and timeout_handler raises TimeoutError where the
\* call is: in student code that swallows it, inside the inner try, inside
\* the outer try, or inside an except or finally clause of the outer try
AlarmFire ==
    /\ UNCHANGED <<other, web>>
    /\ alarm > 0
    /\ handler = "timeout_handler"
    /\ pc \in {"exec", "body", "lookup", "loop", "call", "except_case", "cancel",
               "except_exc", "finally"}
    /\ alarm' = 0
    /\ fired' = TRUE
    /\ LET swallowed == \/ pc = "body" /\ code.body = "loop_swallow"
                        \/ pc = "call" /\ code.fn = "loop_swallow"
       IN  CASE swallowed ->
                    UNCHANGED <<pc, e, pending, trace>>
             [] ~swallowed /\ pc = "call" ->
                    /\ e' = TimeoutMsg
                    /\ trace' = Ended("timeout", 0)
                    /\ pc' = "except_case"
                    /\ UNCHANGED pending
             [] ~swallowed /\ pc \in {"exec", "body", "lookup", "loop", "except_case", "cancel"} ->
                    /\ e' = TimeoutMsg
                    /\ pc' = "except_timeout"
                    /\ UNCHANGED <<pending, trace>>
             [] pc \in {"except_exc", "finally"} ->
                    /\ pending' = Raise("TimeoutError")
                    /\ pc' = "finally"
                    /\ UNCHANGED <<e, trace>>
    /\ UNCHANGED <<config, code, safe_globals, failed_tests, i, handler, SAFE_BUILTINS,
                   returned, armed, executed, evaluated, prev>>

\* the caller has taken the outcome of the call; what is left is the state
\* of the process
Discard ==
    /\ UNCHANGED <<other, web>>
    /\ pc = "done"
    /\ pc' = "idle"
    /\ config' = [type |-> "static"]
    /\ code' = Code(TRUE, {}, {}, "pass", "double")
    /\ outcome' = "none"
    /\ result' = NoResult
    /\ exc' = ""
    /\ fired' = FALSE
    /\ armed' = -1
    /\ executed' = FALSE
    /\ trace' = << >>
    /\ evaluated' = 0
    /\ prev' = NoPrev
    /\ UNCHANGED <<locals, alarm, handler, SAFE_BUILTINS>>

\* a submission arrives with the config of its checkpoint
Submit ==
    /\ pc = "idle"
    /\ \E cfg \in Configs, c \in Codes : Call(cfg, c)

\* the learner sends a submission that did not parse again as it is
Resubmit ==
    /\ pc = "done"
    /\ ~code.syntax_ok
    /\ Call(config, code)

\* the steps of the interpreter inside a call
Step ==
    \/ Install
    \/ Arm
    \/ ExecStart
    \/ Body
    \/ Lookup
    \/ Loop
    \/ CallCase
    \/ ExceptCase
    \/ Cancel
    \/ Format
    \/ ExceptTimeout
    \/ ExceptExc
    \/ Finally

Next ==
    \/ Submit
    \/ Resubmit
    \/ Step
    \/ AlarmFire
    \/ Discard

Spec == Init /\ [][Next]_vars

(* ----------------------- overlapping validations ---------------------- *)
\* The process runs validate_execution in its main thread (the variables
\* above) while a second thread calls it too.  signal.signal is refused
\* outside the main thread, signal.alarm is not: it acts on the one alarm
\* of the process.

\* all the state of the main thread's call but the process's alarm and handler
thread == <<pc, config, code, locals, SAFE_BUILTINS, returned, history>>

\* str(e) of the ValueError signal.signal raises outside the main thread
MainThreadMsg == "signal only works in main thread of the main interpreter"

\* the second thread calls validate_execution while the main thread's call
\* is in progress: ast.parse, then the try block is entered
OtherCall(c) ==
    /\ pc \notin {"idle", "done"}
    /\ other.pc = "idle"
    /\ other' = IF c.syntax_ok
                THEN [pc |-> "install", e |-> "", result |-> NoResult]
                ELSE [pc |-> "done", e |-> "", result |-> ExecSyntaxResult(c)]
    /\ UNCHANGED <<thread, alarm, handler, web>>

\* signal.signal(signal.SIGALRM, timeout_handler) in the second thread: ValueError
OtherInstall ==
    /\ other.pc = "install"
    /\ other' = [other EXCEPT !.pc = "except_exc", !.e = MainThreadMsg]
    /\ UNCHANGED <<thread, alarm, handler, web>>

\* the outer `except Exception as e` in the second thread
OtherExceptExc ==
    /\ other.pc = "except_exc"
    /\ alarm' = 0
    /\ other' = [other EXCEPT !.pc = "finally", !.result = ErrorResult(other.e)]
    /\ UNCHANGED <<thread, handler, web>>

\* the finally clause in the second thread, then its call returns
OtherFinally ==
    /\ other.pc = "finally"
    /\ alarm' = FinallyAlarm(alarm)
    /\ other' = [other EXCEPT !.pc = "done", !.e = ""]
    /\ UNCHANGED <<thread, handler, web>>

\* the second thread's caller has taken the result
OtherDiscard ==
    /\ other.pc = "done"
    /\ other' = OtherIdle
    /\ UNCHANGED <<thread, alarm, handler, web>>

\* the execution configs with at most one test case
ConcConfigs == {cfg \in ExecConfigs : Len(cfg.test_cases) <= 1}

\* a submission for an execution checkpoint arrives in the main thread
ConcSubmit ==
    /\ pc = "idle"
    /\ \E cfg \in ConcConfigs, c \in Codes : Call(cfg, c)

\* a submission for an execution checkpoint arrives in the second thread
OtherSubmit ==
    \E c \in {Code(FALSE, {}, {}, "pass", "double"), Code(TRUE, {}, {}, "loop", "double")} :
        OtherCall(c)

ConcNext ==
    \/ ConcSubmit
    \/ Step
    \/ AlarmFire
    \/ Discard
    \/ OtherSubmit
    \/ OtherInstall
    \/ OtherExceptExc
    \/ OtherFinally
    \/ OtherDiscard

ConcSpec == Init /\ [][ConcNext]_vars

(* ------------------------- lesson controller -------------------------- *)
\* most submissions that reach validation
MaxSubmissions == 3

\* d[k] = v
Put(d, k, v) == [x \in DOMAIN d \cup {k} |-> IF x = k THEN v ELSE d[x]]

\* the lessons a request can name: lesson 1 has a checkpoint with a
\* validator config, lesson 2 has a file without one
Lessons == {1, 2}
HasValidator(lesson_id) == lesson_id = 1

\* the code a submission can carry and the steps a progress update can
\* carry, '' for a missing field
Submitted == {"c1", "c2"}
Steps == {"s1"}

\* str(lesson_id)
LessonKey(lesson_id) == ToString(lesson_id)

\* the entry _get_lesson_progress creates for a lesson
NewProgress ==
    [current_step |-> None, completed_checkpoints |-> << >>, checkpoint_attempts |-> EmptyDict]

\* the record _track_checkpoint_attempt creates for a checkpoint
NewAttempt == [count |-> 0, last_code |-> "", passed |-> FALSE, timestamp |-> None]

\* session['lesson_progress'][lesson_key] = progress
WithProgress(s, lesson_id, progress) ==
    Put(s, "lesson_progress", Put(s.lesson_progress, LessonKey(lesson_id), progress))

\* the session after _get_lesson_progress(lesson_id): what is missing is created
GetLessonProgress(s, lesson_id) ==
    LET s1 == IF "lesson_progress" \in DOMAIN s THEN s ELSE Put(s, "lesson_progress", EmptyDict)
    IN  IF LessonKey(lesson_id) \in DOMAIN s1.lesson_progress
        THEN s1
        ELSE WithProgress(s1, lesson_id, NewProgress)

\* the session after _track_checkpoint_attempt(lesson_id, checkpoint_id, code)
TrackCheckpointAttempt(s, lesson_id, checkpoint_id, submitted) ==
    LET s1 == GetLessonProgress(s, lesson_id)
        p == s1.lesson_progress[LessonKey(lesson_id)]
        p1 == IF "checkpoint_attempts" \in DOMAIN p THEN p
              ELSE Put(p, "checkpoint_attempts", EmptyDict)
        a == p1.checkpoint_attempts
        a1 == IF checkpoint_id \in DOMAIN a THEN a ELSE Put(a, checkpoint_id, NewAttempt)
        attempt == [a1[checkpoint_id] EXCEPT !.count = @ + 1,
                                             !.last_code = submitted,
                                             !.timestamp = "now"]
    IN  WithProgress(s1, lesson_id, Put(p1, "checkpoint_attempts", Put(a1, checkpoint_id, attempt)))

\* a completion that appends the id without looking for it in the list
MarkCheckpointComplete_Mut(s, lesson_id, checkpoint_id) ==
    LET s1 == GetLessonProgress(s, lesson_id)
        p == s1.lesson_progress[LessonKey(lesson_id)]
        p1 == IF "completed_checkpoints" \in DOMAIN p THEN p
              ELSE Put(p, "completed_checkpoints", << >>)
        p2 == Put(p1, "completed_checkpoints", Append(p1.completed_checkpoints, checkpoint_id))
        a == IF "checkpoint_attempts" \in DOMAIN p2 THEN p2.checkpoint_attempts ELSE EmptyDict
        p3 == IF checkpoint_id \in DOMAIN a
              THEN Put(p2, "checkpoint_attempts",
                       Put(a, checkpoint_id, [a[checkpoint_id] EXCEPT !.passed = TRUE]))
              ELSE p2
    IN  WithProgress(s1, lesson_id, p3)

\* the session after _mark_checkpoint_complete(lesson_id, checkpoint_id)
MarkCheckpointComplete(s, lesson_id, checkpoint_id) ==
    LET s1 == GetLessonProgress(s, lesson_id)
        p == s1.lesson_progress[LessonKey(lesson_id)]
        p1 == IF "completed_checkpoints" \in DOMAIN p THEN p
              ELSE Put(p, "completed_checkpoints", << >>)
        done == p1.completed_checkpoints
        p2 == IF \E k \in 1..Len(done) : done[k] = checkpoint_id THEN p1
              ELSE Put(p1, "completed_checkpoints", Append(done, checkpoint_id))
        a == IF "checkpoint_attempts" \in DOMAIN p2 THEN p2.checkpoint_attempts ELSE EmptyDict
        p3 == IF checkpoint_id \in DOMAIN a
              THEN Put(p2, "checkpoint_attempts",
                       Put(a, checkpoint_id, [a[checkpoint_id] EXCEPT !.passed = TRUE]))
              ELSE p2
    IN  WithProgress(s1, lesson_id, p3)

\* all the state of the validation engine
engine == <<thread, alarm, handler, other>>

\* GET /lessons/<id>/progress
GetProgress(lesson_id) ==
    /\ ~request.active
    /\ session' = GetLessonProgress(session, lesson_id)
    /\ UNCHANGED <<engine, request, submissions>>

\* POST /lessons/<id>/progress with current_step in the body ('' when it is missing)
UpdateProgress(lesson_id, current_step) ==
    /\ ~request.active
    /\ IF current_step = ""
       THEN UNCHANGED session
       ELSE LET s1 == IF "lesson_progress" \in DOMAIN session THEN session
                      ELSE Put(session, "lesson_progress", EmptyDict)
                p == IF LessonKey(lesson_id) \in DOMAIN s1.lesson_progress
                     THEN s1.lesson_progress[LessonKey(lesson_id)]
                     ELSE EmptyDict
            IN  session' = WithProgress(s1, lesson_id, Put(p, "current_step", current_step))
    /\ UNCHANGED <<engine, request, submissions>>

\* POST /lessons/<id>/checkpoint up to the call of the validator: a request
\* with a missing field, or for a lesson without validator config, is
\* answered with an error; otherwise the attempt is tracked and validation starts
SubmitCheckpoint(lesson_id, checkpoint_id, submitted) ==
    /\ ~request.active
    /\ submissions[IF checkpoint_id = "" THEN "a" ELSE checkpoint_id] < MaxSubmissions
    /\ IF checkpoint_id = "" \/ submitted = "" \/ ~HasValidator(lesson_id)
       THEN UNCHANGED web
       ELSE /\ session' = TrackCheckpointAttempt(session, lesson_id, checkpoint_id, submitted)
            /\ request' = [active |-> TRUE, lesson_id |-> lesson_id, checkpoint_id |-> checkpoint_id]
            /\ submissions' = [submissions EXCEPT ![checkpoint_id] = @ + 1]
    /\ UNCHANGED engine

\* the validator has returned passed=true, returned passed=false or raised:
\* the rest of the handler
FinishValidation(how) ==
    /\ request.active
    /\ session' = IF how = "passed"
                  THEN MarkCheckpointComplete(session, request.lesson_id, request.checkpoint_id)
                  ELSE session
    /\ request' = NoRequest
    /\ UNCHANGED <<engine, submissions>>

WebNext ==
    \/ \E lesson_id \in Lessons : GetProgress(lesson_id)
    \/ \E lesson_id \in Lessons, current_step \in Steps \cup {""} :
          UpdateProgress(lesson_id, current_step)
    \/ \E lesson_id \in Lessons, checkpoint_id \in Checkpoints \cup {""},
          submitted \in Submitted \cup {""} :
          SubmitCheckpoint(lesson_id, checkpoint_id, submitted)
    \/ \E how \in {"passed", "failed", "raised"} : FinishValidation(how)

WebSpec == Init /\ [][WebNext]_vars

(* ----------------------------- properties ----------------------------- *)
\* the last call went through validate_static / validate_execution
IsStatic == IsMapping(config) /\ Get(config, "type", "static") = "static"
IsExec == IsMapping(config) /\ Get(config, "type", "static") = "execution"

Returned == pc = "done" /\ outcome = "returned"

StartsWith(str, prefix) ==
    Len(str) >= Len(prefix) /\ SubSeq(str, 1, Len(prefix)) = prefix

\* the invocations of the entry point that did not return the expected value
FailedCases == SelectSeq(trace, LAMBDA t : t.how \in {"mismatch", "raise", "timeout"})

\* the test loop ran to its end and the call returned what it made of it
LoopReported ==
    /\ Returned
    /\ IsExec
    /\ Len(trace) = Len(test_cases)
    /\ \A k \in 1..Len(trace) : trace[k].how # "running"
    /\ result.message # "Code execution timeout"

\* C1: validate_checkpoint never raises to its caller: whatever the config
\* and the submission, a call that has ended has returned a result dict.
C1_NeverRaises == pc = "done" => outcome = "returned"

\* C2: when the alarm went off between signal.alarm(timeout) and its
\* cancellation, a call of validate_execution that returns returns
\* passed=false with the message 'Code execution timeout' and the
\* infinite-loop hint, never another message.
C2_TimeoutReported ==
    (Returned /\ fired) =>
        /\ result.passed = FALSE
        /\ result.message = "Code execution timeout"
        /\ result.hints = List(<<"Your code might have an infinite loop">>)

\* C3: with a deadline of 1, validate_execution of a submission that loops
\* forever (in the module body or in the entry point) never hangs: as long
\* as the call has not ended, the interpreter can take a step or the alarm
\* is still to go off.
C3_NeverHangs ==
    (/\ pc \notin {"idle", "done"}
     /\ timeout = 1
     /\ (code.body \in {"loop", "loop_swallow"} \/ code.fn \in {"loop", "loop_swallow"}))
        => ENABLED (Step \/ AlarmFire)

\* C4: when validate_execution reports test failures, errors has one entry
\* per case that returned a wrong value or raised, in test-case order: as
\* many entries as such cases, the k-th entry being about the k-th of them.
C4_OneErrorPerFailedCase ==
    (LoopReported /\ Len(FailedCases) > 0) =>
        /\ result.errors.kind = "list"
        /\ Len(result.errors.items) = Len(FailedCases)
        /\ \A k \in 1..Len(FailedCases) :
              StartsWith(result.errors.items[k],
                         Description(test_cases[FailedCases[k].idx + 1], FailedCases[k].idx) \o ": ")

\* C5: a test case whose returned value differs from expected makes the
\* result passed=false with an errors entry
\* '<description>: Expected <expected>, got <actual>', the description
\* defaulting to 'Test <1-based index>'.
C5_MismatchEntry ==
    LoopReported =>
        \A k \in 1..Len(trace) :
            trace[k].how = "mismatch" =>
                /\ result.passed = FALSE
                /\ result.errors.kind = "list"
                /\ \E j \in 1..Len(result.errors.items) :
                      result.errors.items[j] =
                          Get(test_cases[k], "description", "Test " \o ToString(k))
                              \o ": Expected " \o ToString(test_cases[k].expected)
                              \o ", got " \o ToString(trace[k].value)

\* C6: every result returned has passed=true only together with errors
\* absent or None, never with a list of errors.
C6_PassedHasNoErrors ==
    Returned => (result.passed => result.errors.kind \in {"absent", "None"})

C6_Witness ==
    /\ Returned
    /\ IsExec
    /\ result.passed
    /\ Len(test_cases) = MaxTests

\* C7: for code that parses, validate_static returns passed=true exactly
\* when every regex or ast_contains rule that is required is satisfied (its
\* pattern is found, its node kind is in the tree); rules that are not
\* required do not count.
C7_PassedIffRequiredSatisfied ==
    (Returned /\ IsStatic /\ code.syntax_ok) =>
        LET checks == Get(config, "checks", << >>)
            IsRegex(r) == "type" \notin DOMAIN r \/ r.type = "regex"
            IsAst(r) == "type" \in DOMAIN r /\ r.type = "ast_contains"
            Required(r) == "required" \notin DOMAIN r \/ r.required
            Satisfied(r) ==
                IF IsRegex(r)
                THEN "pattern" \notin DOMAIN r \/ r.pattern \in code.matches
                ELSE "node_type" \in DOMAIN r /\ r.node_type \in code.nodes
        IN  result.passed =
                (\A k \in 1..Len(checks) :
                    ((IsRegex(checks[k]) \/ IsAst(checks[k])) /\ Required(checks[k]))
                        => Satisfied(checks[k]))

C7_Witness ==
    /\ Returned
    /\ IsStatic
    /\ code.syntax_ok
    /\ result.passed
    /\ result.hints.kind = "list"
    /\ \E k \in 1..Len(Get(config, "checks", << >>)) :
          /\ "required" \in DOMAIN config.checks[k]
          /\ config.checks[k].required
          /\ config.checks[k].type \in {"regex", "ast_contains"}

\* C8: for a submission that does not parse, validate_static and
\* validate_execution return passed=false with the syntax-error message and
\* an errors entry giving line and reason; no rule is evaluated, no alarm
\* armed, no code executed, no test case run; and the same call made again
\* returns the same.
C8_SyntaxErrorResult ==
    (pc = "done" /\ (IsStatic \/ IsExec) /\ ~code.syntax_ok) =>
        /\ outcome = "returned"
        /\ result.passed = FALSE
        /\ result.message = "Syntax error in your code"
        /\ result.errors = List(<<"Line " \o ToString(code.lineno) \o ": " \o code.msg>>)
        /\ evaluated = 0
        /\ armed = -1
        /\ alarm = 0
        /\ ~executed
        /\ trace = << >>
        /\ prev.has => (prev.outcome = outcome /\ prev.result = result)

C8_Witness ==
    /\ pc = "done"
    /\ ~code.syntax_ok
    /\ IsExec
    /\ Len(test_cases) > 0
    /\ prev.has
    /\ outcome = "returned"

\* C9: whenever a call of validate_execution has ended, on any path, no
\* alarm is pending.
C9_AlarmCancelled == pc \in {"done", "idle"} => alarm = 0

C9_Witness ==
    /\ Returned
    /\ IsExec
    /\ armed > 0
    /\ result = MissingResult(function_name)

\* C10: nothing a submission does is seen by a later call: the builtins
\* mapping that the namespace of a call refers to is the whitelist, none of
\* its entries added, replaced or removed by an earlier submission.
C10_FreshBuiltins == pc = "install" => SAFE_BUILTINS = SafeBuiltinsInit

\* C11: overlapping calls of validate_execution keep their own deadlines:
\* from a call's signal.alarm(timeout) to its own signal.alarm(0), and until
\* the alarm goes off, the alarm pending in the process is the one that call
\* armed; no other call has replaced, shortened or cancelled it.
C11_OwnDeadline ==
    (/\ pc \in {"exec", "body", "lookup", "loop", "call", "except_case", "cancel"}
     /\ armed > 0
     /\ ~fired)
        => alarm = armed

\* the module body of the last call ran to its end and the alarm did not go off
BodyCompleted == IsExec /\ code.syntax_ok /\ code.body = "pass" /\ ~fired

\* C12: when the module body has run and the entry-point name is then not
\* bound to a callable (not bound at all, or bound to a value that cannot
\* be called), validate_execution returns the 'Function "<name>" not found
\* in your code' result with passed=false and has invoked no test case,
\* also for an empty list of test cases.
C12_MissingEntryPoint ==
    (Returned /\ BodyCompleted /\ code.fn \in {"absent", "noncallable"}) =>
        /\ result = MissingResult(function_name)
        /\ trace = << >>

\* C13: when the alarm does not go off and the entry point is found, the
\* test loop invokes every case once, in list order, whatever the cases
\* before did: at the end of the loop there is one invocation per case, the
\* k-th for the k-th case, and failed_tests holds one record per case that
\* failed, in that order, the record of a case that raised carrying the
\* exception's message under 'error' and no 'actual'.
C13_CaseIsolation ==
    (pc = "cancel" /\ ~fired) =>
        /\ Len(trace) = Len(test_cases)
        /\ \A k \in 1..Len(trace) : trace[k].idx = k - 1 /\ trace[k].how # "running"
        /\ Len(failed_tests) = Len(FailedCases)
        /\ \A k \in 1..Len(FailedCases) :
              LET t == FailedCases[k]
                  test_case == test_cases[t.idx + 1]
              IN  /\ failed_tests[k].description = Description(test_case, t.idx)
                  /\ t.how = "raise" =>
                        /\ DOMAIN failed_tests[k] = {"description", "error"}
                        /\ failed_tests[k].error =
                              CallFn(code.fn, test_case.input.x, SAFE_BUILTINS).msg

C13_Witness ==
    /\ pc = "cancel"
    /\ ~fired
    /\ Len(test_cases) = MaxTests
    /\ trace[1].how = "raise"
    /\ code.fn = "raise"
    /\ "description" \in DOMAIN test_cases[MaxTests]

\* every test case was invoked and returned its expected value
AllMatch ==
    /\ Len(trace) = Len(test_cases)
    /\ \A k \in 1..Len(trace) : trace[k].how = "match"

C15_WhitelistClosure ==
    /\ (Returned /\ IsExec /\ code.syntax_ok /\ code.body = "import" /\ ~fired) =>
          result = ErrorResult("__import__ not found")
    /\ (pc = "cancel" /\ code.fn = "import") =>
          /\ Len(failed_tests) = Len(test_cases)
          /\ \A k \in 1..Len(trace) : trace[k].how \in {"raise", "timeout"}

\* the last call was made with a config of an unknown validator type
IsUnknown == IsMapping(config) /\ Get(config, "type", "static") \notin {"static", "execution"}

\* C16: for a validator type other than 'static' and 'execution',
\* validate_checkpoint returns (it does not raise) passed=false with the
\* errors entry 'Validator type "<type>" not supported'; no check rule was
\* evaluated, no alarm armed, no code executed and no test case invoked.
C16_UnknownType ==
    (pc = "done" /\ IsUnknown) =>
        /\ outcome = "returned"
        /\ result.passed = FALSE
        /\ result.message = "Unknown validator type: " \o config.type
        /\ result.errors = List(<<"Validator type \"" \o config.type \o "\" not supported">>)
        /\ evaluated = 0
        /\ armed = -1
        /\ ~executed
        /\ trace = << >>

C16_Witness ==
    /\ pc = "done"
    /\ IsUnknown
    /\ Len(Get(config, "checks", << >>)) > 0
    /\ Len(test_cases) > 0
    /\ code.syntax_ok
    /\ code.body = "loop"

\* every rule of the last call's list carries required=false
AllOptional ==
    \A k \in 1..Len(Get(config, "checks", << >>)) :
        "required" \in DOMAIN config.checks[k] /\ ~config.checks[k].required

\* C17 as stated: with a rule list whose rules all have required=false,
\* validate_static never returns passed=false, whatever the submitted code.
C17_OptionalNeverFails ==
    (Returned /\ IsStatic /\ AllOptional) => result.passed

\* C17 restricted to code that parses: with a rule list whose rules all
\* have required=false, validate_static never returns passed=false for a
\* submission that ast.parse accepts, whether or not the rules match.
C17_OptionalNeverFailsParsed ==
    (Returned /\ IsStatic /\ AllOptional /\ code.syntax_ok) => result.passed

C17_Witness ==
    /\ Returned
    /\ IsStatic
    /\ AllOptional
    /\ code.syntax_ok
    /\ Len(Get(config, "checks", << >>)) = MaxChecks
    /\ result.passed
    /\ result.hints.kind = "list"
    /\ Len(result.hints.items) = MaxChecks

C19_NoEmptyList ==
    Returned =>
        /\ result.errors.kind = "list" => Len(result.errors.items) > 0
        /\ result.hints.kind = "list" => Len(result.hints.items) > 0

C19_Witness ==
    /\ Returned
    /\ IsStatic
    /\ code.syntax_ok
    /\ Len(Get(config, "checks", << >>)) = MaxChecks
    /\ result.errors = NoneList
    /\ result.hints = NoneList

\* the messages of the rules of the last call's list that failed on the
\* submitted code (pattern not found, node kind not in the tree) and whose
\* required flag, True when missing, is `required`
FailedMessages(required) ==
    LET checks == Get(config, "checks", << >>)
        IsRegex(r) == "type" \notin DOMAIN r \/ r.type = "regex"
        IsAst(r) == "type" \in DOMAIN r /\ r.type = "ast_contains"
        Required(r) == "required" \notin DOMAIN r \/ r.required
        Failed(r) ==
            \/ IsRegex(r) /\ "pattern" \in DOMAIN r /\ r.pattern \notin code.matches
            \/ IsAst(r) /\ ~("node_type" \in DOMAIN r /\ r.node_type \in code.nodes)
        failed == SelectSeq(checks, LAMBDA r : Failed(r) /\ Required(r) = required)
    IN  [k \in 1..Len(failed) |->
            IF "message" \in DOMAIN failed[k] THEN failed[k].message ELSE "Check failed"]

\* C20: for code that parses, validate_static goes through the whole rule
\* list: errors holds exactly the messages of the failed required rules, in
\* rule order, hints exactly those of the failed rules that are not
\* required, in rule order, and a satisfied rule adds nothing.
C20_AllRulesReported ==
    (Returned /\ IsStatic /\ code.syntax_ok) =>
        /\ evaluated = Len(Get(config, "checks", << >>))
        /\ result.errors.items = FailedMessages(TRUE)
        /\ result.hints.items = FailedMessages(FALSE)

C20_Witness ==
    /\ Returned
    /\ IsStatic
    /\ code.syntax_ok
    /\ Len(Get(config, "checks", << >>)) = MaxChecks
    /\ Len(result.errors.items) = 1
    /\ result.errors.items[1] = Get(config.checks[1], "message", "Check failed")
    /\ Len(result.hints.items) = MaxChecks - 1

\* C21: once the alarm has gone off during a call, the execution in flight
\* is abandoned: the invocation it interrupted is the last one, and
\* failed_tests gets no record for it.
C21_AbandonedOnTimeout ==
    fired =>
        /\ \A k \in 1..Len(trace) : trace[k].how = "timeout" => k = Len(trace)
        /\ \A k \in 1..Len(failed_tests) :
              "error" \in DOMAIN failed_tests[k] => failed_tests[k].error # TimeoutMsg

\* C22: a call of validate_execution that armed its alarm ends by returning
\* a result dict, never by raising, at whatever point between
\* signal.alarm(timeout) and the last signal.alarm(0) the alarm goes off.
C22_ExecutionAlwaysReturns ==
    (pc = "done" /\ IsExec /\ armed >= 0) => outcome = "returned"

\* an ast_contains rule whose node_type names no node class, or is missing
UnknownNodeRule(r) ==
    /\ "type" \in DOMAIN r
    /\ r.type = "ast_contains"
    /\ ("node_type" \notin DOMAIN r \/ r.node_type = "NoSuchNode")

\* C23: an ast_contains rule whose node_type is no node class name, or is
\* missing, never matches code that parses: validate_static does not raise
\* on it and its message is in errors when the rule is required, in hints
\* when it is not.
C23_UnknownNodeNeverMatches ==
    (pc = "done" /\ IsStatic /\ code.syntax_ok) =>
        LET checks == Get(config, "checks", << >>)
        IN  /\ (\A k \in 1..Len(checks) : UnknownNodeRule(checks[k])) => outcome = "returned"
            /\ outcome = "returned" =>
                  \A k \in 1..Len(checks) :
                      UnknownNodeRule(checks[k]) =>
                          LET into == IF checks[k].required THEN result.errors ELSE result.hints
                          IN  \E j \in 1..Len(into.items) : into.items[j] = checks[k].message

C23_Witness ==
    /\ Returned
    /\ IsStatic
    /\ code.syntax_ok
    /\ code.nodes = {"Raise"}
    /\ Len(Get(config, "checks", << >>)) = MaxChecks
    /\ "node_type" \notin DOMAIN config.checks[1]
    /\ UnknownNodeRule(config.checks[1])
    /\ config.checks[MaxChecks] =
          [type |-> "ast_contains", node_type |-> "NoSuchNode",
           message |-> "must contain NoSuchNode", required |-> FALSE]
    /\ result.hints.kind = "list"

\* C24: the call tears down what it installed: the process starts with the
\* default SIGALRM handler, so if every call put back the handler it found,
\* then after a call of validate_execution has ended no alarm would be
\* pending and the handler would be the default one, not the call's
\* timeout_handler.
C24_HandlerRestored ==
    (pc = "done" /\ IsExec /\ armed >= 0) => (alarm = 0 /\ handler = "SIG_DFL")

\* C25: the deadline a call dispatched through validate_checkpoint arms is
\* the engine's EXECUTION_TIMEOUT, or at most it, whatever the config holds.
C25_FixedCeiling == armed >= 0 => armed <= EXECUTION_TIMEOUT

InList(list, message) == \E j \in 1..Len(list.items) : list.items[j] = message

\* C28: for code that parses, a rule of a type other than 'regex' and
\* 'ast_contains' adds nothing to errors or hints, so a list of such rules
\* passes even when they are required; a rule without a type is evaluated
\* as a regex rule (its message is reported exactly when its pattern is not
\* found); a rule without a required flag is required (its message goes to
\* errors, never to hints).
C28_RuleDefaults ==
    (Returned /\ IsStatic /\ code.syntax_ok) =>
        LET checks == Get(config, "checks", << >>)
            Skipped(r) == "type" \in DOMAIN r /\ r.type \notin {"regex", "ast_contains"}
        IN  /\ \A k \in 1..Len(checks) :
                  Skipped(checks[k]) =>
                      /\ ~InList(result.errors, checks[k].message)
                      /\ ~InList(result.hints, checks[k].message)
            /\ (\A k \in 1..Len(checks) : Skipped(checks[k])) =>
                  (result.passed /\ result.errors = NoneList /\ result.hints = NoneList)
            /\ \A k \in 1..Len(checks) :
                  checks[k] = [pattern |-> PatRaise, required |-> FALSE] =>
                      /\ InList(result.hints, "Check failed") <=> PatRaise \notin code.matches
                      /\ ~InList(result.errors, "Check failed")
            /\ \A k \in 1..Len(checks) :
                  checks[k] = [type |-> "regex", pattern |-> PatRaise, message |-> "no required flag"] =>
                      /\ InList(result.errors, "no required flag") <=> PatRaise \notin code.matches
                      /\ ~InList(result.hints, "no required flag")

C28_Witness ==
    /\ Returned
    /\ IsStatic
    /\ code.syntax_ok
    /\ PatRaise \notin code.matches
    /\ Len(Get(config, "checks", << >>)) = 2
    /\ config.checks[1] = [type |-> "bogus", message |-> "unknown rule type", required |-> TRUE]
    /\ config.checks[2] = [pattern |-> PatRaise, required |-> FALSE]
    /\ result.passed
    /\ result.hints = List(<<"Check failed">>)

\* C29: the dispatcher fails open.  A config without 'type' goes to
\* validate_static: its checks are applied and its test cases are not run.
\* A static config without checks, or with an empty list, returns
\* passed=true for every submission that parses, and none of the
\* submission is executed.
C29_FailsOpen ==
    /\ (pc = "done" /\ IsMapping(config) /\ "type" \notin DOMAIN config) =>
          /\ outcome = "returned"
          /\ armed = -1 /\ ~executed /\ trace = << >>
          /\ evaluated = (IF code.syntax_ok THEN Len(Get(config, "checks", << >>)) ELSE 0)
          /\ code.syntax_ok =>
                result.passed =
                    (\A k \in 1..Len(Get(config, "checks", << >>)) :
                        config.checks[k].pattern \in code.matches)
    /\ (pc = "done" /\ IsStatic /\ Len(Get(config, "checks", << >>)) = 0 /\ code.syntax_ok) =>
          /\ outcome = "returned"
          /\ result = Result(TRUE, "All checks passed!", NoneList, NoneList)
          /\ armed = -1 /\ ~executed /\ trace = << >>

C29_Witness ==
    /\ Returned
    /\ "type" \notin DOMAIN config
    /\ "checks" \in DOMAIN config
    /\ Len(config.checks) = 0
    /\ code.syntax_ok
    /\ code.body = "loop"
    /\ result.passed

\* a config without 'type' and with test cases went to validate_static
C29_WitnessTypeless ==
    /\ Returned
    /\ "type" \notin DOMAIN config
    /\ Len(test_cases) > 0
    /\ ~result.passed
    /\ result.message = "Some checks failed"

\* C26: GET /lessons/<id>/progress only reads: a step of get_progress,
\* from whatever session, leaves the session as it was.
C26_GetProgressReadsOnly ==
    [][(\E lesson_id \in Lessons : GetProgress(lesson_id)) => session' = session]_vars

\* the progress the session holds for a lesson, {} when it holds none
ProgressOf(s, lesson_id) ==
    IF "lesson_progress" \in DOMAIN s /\ LessonKey(lesson_id) \in DOMAIN s.lesson_progress
    THEN s.lesson_progress[LessonKey(lesson_id)]
    ELSE EmptyDict

CompletedOf(s, lesson_id) ==
    LET p == ProgressOf(s, lesson_id)
    IN  IF "completed_checkpoints" \in DOMAIN p THEN p.completed_checkpoints ELSE << >>

AttemptsOf(s, lesson_id) ==
    LET p == ProgressOf(s, lesson_id)
    IN  IF "checkpoint_attempts" \in DOMAIN p THEN p.checkpoint_attempts ELSE EmptyDict

IsCompleted(s, lesson_id, checkpoint_id) ==
    \E k \in 1..Len(CompletedOf(s, lesson_id)) : CompletedOf(s, lesson_id)[k] = checkpoint_id

\* the session's progress is consistent
ProgressConsistent ==
    \A lesson_id \in Lessons :
        LET done == CompletedOf(session, lesson_id)
            a == AttemptsOf(session, lesson_id)
        IN  /\ \A j, k \in 1..Len(done) : done[j] = done[k] => j = k
            /\ \A cp \in Checkpoints :
                  /\ IsCompleted(session, lesson_id, cp) <=> (cp \in DOMAIN a /\ a[cp].passed)
                  /\ HasValidator(lesson_id) =>
                        submissions[cp] = (IF cp \in DOMAIN a THEN a[cp].count ELSE 0)
                  /\ ~HasValidator(lesson_id) => cp \notin DOMAIN a

\* no step takes a checkpoint out of the completed ones or its record back to passed=False
CompletedKept ==
    \A lesson_id \in Lessons, cp \in Checkpoints :
        IsCompleted(session, lesson_id, cp) =>
            /\ IsCompleted(session', lesson_id, cp)
            /\ AttemptsOf(session', lesson_id)[cp].passed

\* C30: after any sequence of checkpoint submissions and progress updates
\* the lesson progress in the session is consistent: completed_checkpoints
\* has no id twice, holds an id exactly when the id's attempt record has
\* passed=True, never loses an id nor has its record reverted by a later
\* submission, and every record's count is the number of submissions for
\* that checkpoint that reached validation.
C30_ProgressConsistent == []ProgressConsistent /\ [][CompletedKept]_vars

C30_Witness ==
    /\ ~request.active
    /\ CompletedOf(session, 1) = <<"b", "a">>
    /\ AttemptsOf(session, 1)["a"].count = MaxSubmissions
    /\ AttemptsOf(session, 1)["a"].last_code = "c2"
    /\ ProgressOf(session, 2) = [current_step |-> "s1"]
====
